---- MODULE Spec2Model ----
(***************************************************************************)
(* Model of reframe/core/runtime.py: the process-wide runtime context      *)
(* (_runtime_context), the RuntimeContext instances, the scoped switches   *)
(* temp_runtime / switch_runtime / temp_environment, the environment       *)
(* activation loadenv / emit_loadenv_commands / is_env_loaded, and the     *)
(* derivation of stage and output directories.                             *)
(*                                                                         *)
(* Strings are sequences of tokens (a literal piece of text, the path      *)
(* separator "/", or a variable reference "$X"), so that formatting,       *)
(* joining and expansion are computed and equality is textual equality.    *)
(***************************************************************************)
EXTENDS Integers, Sequences, FiniteSets, TLC

VARIABLES
    ctxs,             \* every RuntimeContext constructed so far (the heap); ids are 1..Len(ctxs)
    runtime_context,  \* the module global _runtime_context: None or the id of a context
    stack,            \* the with-scopes that are open, innermost last
    objs,             \* the temp_runtime objects constructed and not entered yet
    exc,              \* the exception propagating in the thread of control, NoExc if none
    environ,          \* os.environ: variable name -> value, or Absent
    loaded,           \* the modules the module system reports loaded
    fs,               \* the directories under the stage/output prefixes and their content
    last              \* the last operation performed and what its caller observed

vars == <<ctxs, runtime_context, stack, objs, exc, environ, loaded, fs, last>>

----------------------------------------------------------------------------
(* Bounds of the model *)

MaxCtx == 3        \* RuntimeContext instances constructed in one behaviour
MaxRun == 2        \* next_run() calls in one behaviour
MaxDepth == 2      \* with-scopes open at the same time

None == 0                    \* the value None of a context reference
NoConfigFile == "None"       \* config_file = None
NoExc == "none"
Absent == <<"<absent>">>

----------------------------------------------------------------------------
(* Strings *)

Digit == <<"0", "1", "2", "3", "4", "5", "6", "7", "8", "9">>

RECURSIVE DecStr(_)
\* '%s' % n for a non-negative integer n: its decimal digits
DecStr(n) ==
    IF n < 10 THEN <<Digit[n + 1]>>
    ELSE DecStr(n \div 10) \o <<Digit[(n % 10) + 1]>>

----------------------------------------------------------------------------
(* Site configurations (reframe.core.config, an external collaborator) *)

ConfigFiles == {"generic.py", "scratch.py", "broken.py", "missing.py"}

\* config.load_config(config_file) does not raise: the file exists and is a
\* valid configuration
LoadConfigOk(config_file) == config_file # "missing.py"

\* config.load_config(config_file) followed by select_subconfig(sysname):
\* the resolved configuration of the selected system
load_config(config_file) ==
    CASE config_file = "generic.py" ->
            [name |-> "generic", prefix |-> <<".">>, stagedir |-> <<>>,
             outputdir |-> <<>>, timefmt |-> "", system_ok |-> TRUE]
      [] config_file = "scratch.py" ->
            [name |-> "scratch", prefix |-> <<".">>,
             stagedir |-> <<"$X">>, outputdir |-> <<>>,
             timefmt |-> "%F", system_ok |-> TRUE]
      [] OTHER ->
            [name |-> "broken", prefix |-> <<".">>, stagedir |-> <<>>,
             outputdir |-> <<>>, timefmt |-> "", system_ok |-> FALSE]

\* site_config.add_sticky_option(opt, value) for each option given
add_sticky_options(site_config, options) ==
    [k \in DOMAIN site_config |->
        IF k \in DOMAIN options THEN options[k] ELSE site_config[k]]

NoOptions == [k \in {} |-> <<>>]

----------------------------------------------------------------------------
(* RuntimeContext *)

\* System.create(site_config) succeeds
SystemCreateOk(site_config) == site_config.system_ok

\* RuntimeContext.__init__; now is datetime.now()
RuntimeContextNew(site_config, now) ==
    [site_config |-> site_config, current_run |-> 0, timestamp |-> now]

\* datetime.now(): time passes between two constructions
Now == Len(ctxs) + 1

next_run_reset(c) == [c EXCEPT !.current_run = 1]

\* RuntimeContext.next_run
next_run(c) == [c EXCEPT !.current_run = @ + 1]

CtxIds == 1 .. Len(ctxs)

RECURSIVE TotalRuns(_)
\* the retries counted by the first n contexts together
TotalRuns(n) == IF n = 0 THEN 0 ELSE ctxs[n].current_run + TotalRuns(n - 1)

----------------------------------------------------------------------------
(* The state after the module is imported *)

NoLast == [op |-> "none", exc |-> NoExc]

EnvVars == {"X", "Y"}

Init ==
    /\ ctxs = <<>>
    /\ runtime_context = None
    /\ stack = <<>>
    /\ objs = <<>>
    /\ exc = NoExc
    /\ environ = [v \in EnvVars |-> IF v = "X" THEN <<"a">> ELSE Absent]
    /\ loaded = {}
    /\ fs = [dirs |-> {}, files |-> {}]
    /\ last = NoLast

\* Code runs only while no exception is propagating
Running == exc = NoExc

----------------------------------------------------------------------------
(* init_runtime, runtime *)

init_runtime_always(rc) == TRUE

\* init_runtime: the test that decides whether a context is constructed
init_runtime_constructs(rc) == rc = None

InitRuntime(site_config) ==
    /\ Running
    /\ IF init_runtime_constructs(runtime_context)
       THEN IF SystemCreateOk(site_config)
            THEN /\ Len(ctxs) < MaxCtx
                 /\ ctxs' = Append(ctxs, RuntimeContextNew(site_config, Now))
                 /\ runtime_context' = Len(ctxs) + 1
                 /\ exc' = NoExc
            ELSE /\ UNCHANGED <<ctxs, runtime_context, objs>>
                 /\ exc' = "ConfigError"
       ELSE UNCHANGED <<ctxs, runtime_context, exc, objs>>
    /\ last' = [op |-> "init_runtime", exc |-> exc', arg |-> site_config.name]
    /\ UNCHANGED <<stack, environ, loaded, fs, objs>>

runtime_noraise(rc) == [exc |-> NoExc, ret |-> rc]

\* runtime(): the context returned, or the error raised
runtime(rc) ==
    IF rc = None
    THEN [exc |-> "ReframeFatalError: no runtime context is configured", ret |-> None]
    ELSE [exc |-> NoExc, ret |-> rc]

RuntimeQuery ==
    /\ Running
    /\ exc' = runtime(runtime_context).exc
    /\ last' = [op |-> "runtime", exc |-> exc', ret |-> runtime(runtime_context).ret]
    /\ UNCHANGED <<ctxs, runtime_context, stack, environ, loaded, fs, objs>>

\* c.next_run() on any instance the program holds a reference to
NextRun(c) ==
    /\ Running
    /\ c \in CtxIds
    /\ TotalRuns(Len(ctxs)) < MaxRun
    /\ ctxs' = [ctxs EXCEPT ![c] = next_run(@)]
    /\ last' = [op |-> "next_run", exc |-> NoExc, self |-> c]
    /\ UNCHANGED <<runtime_context, stack, exc, environ, loaded, fs, objs>>

----------------------------------------------------------------------------
(* temp_runtime, switch_runtime *)

NoSnapshot == [v \in {} |-> Absent]

temp_runtime_init_save_after(rc, config_file, options) ==
    IF config_file = NoConfigFile
    THEN [exc |-> NoExc, runtime_save |-> None, rc |-> None, new |-> <<>>]
    ELSE IF ~LoadConfigOk(config_file)
    THEN [exc |-> "ConfigError", runtime_save |-> rc, rc |-> rc, new |-> <<>>]
    ELSE LET site_config == add_sticky_options(load_config(config_file), options)
         IN  IF SystemCreateOk(site_config)
             THEN [exc |-> NoExc, runtime_save |-> Len(ctxs) + 1, rc |-> Len(ctxs) + 1,
                   new |-> <<RuntimeContextNew(site_config, Now)>>]
             ELSE [exc |-> "ConfigError", runtime_save |-> rc, rc |-> rc, new |-> <<>>]

temp_runtime_init_clear_first(rc, config_file, options) ==
    IF config_file = NoConfigFile
    THEN [exc |-> NoExc, runtime_save |-> rc, rc |-> None, new |-> <<>>]
    ELSE IF ~LoadConfigOk(config_file)
    THEN [exc |-> "ConfigError", runtime_save |-> rc, rc |-> None, new |-> <<>>]
    ELSE LET site_config == add_sticky_options(load_config(config_file), options)
         IN  IF SystemCreateOk(site_config)
             THEN [exc |-> NoExc, runtime_save |-> rc, rc |-> Len(ctxs) + 1,
                   new |-> <<RuntimeContextNew(site_config, Now)>>]
             ELSE [exc |-> "ConfigError", runtime_save |-> rc, rc |-> None, new |-> <<>>]

\* temp_runtime.__init__ started with _runtime_context = rc: the reference
\* saved, the value of _runtime_context afterwards, the context constructed
\* (if any) and the error raised (if any)
temp_runtime_init(rc, config_file, options) ==
    IF config_file = NoConfigFile
    THEN [exc |-> NoExc, runtime_save |-> rc, rc |-> None, new |-> <<>>]
    ELSE IF ~LoadConfigOk(config_file)
    THEN [exc |-> "ConfigError", runtime_save |-> rc, rc |-> rc, new |-> <<>>]
    ELSE LET site_config == add_sticky_options(load_config(config_file), options)
         IN  IF SystemCreateOk(site_config)
             THEN [exc |-> NoExc, runtime_save |-> rc, rc |-> Len(ctxs) + 1,
                   new |-> <<RuntimeContextNew(site_config, Now)>>]
             ELSE [exc |-> "ConfigError", runtime_save |-> rc, rc |-> rc, new |-> <<>>]

temp_runtime_exit_suppress(frame) == [rc |-> frame.runtime_save, suppress |-> TRUE]

\* temp_runtime.__exit__: the value assigned to _runtime_context, and whether
\* the method's return value makes the with-statement swallow the exception
temp_runtime_exit(frame) == [rc |-> frame.runtime_save, suppress |-> FALSE]

Top == stack[Len(stack)]
Pop == SubSeq(stack, 1, Len(stack) - 1)

RuntimeFrame(r, deco) ==
    [kind |-> "temp_runtime", runtime_save |-> r.runtime_save,
     environ_save |-> NoSnapshot, deco |-> deco,
     entry_rc |-> runtime_context, entry_environ |-> NoSnapshot]

\* the statement `with temp_runtime(config_file, sysname, options):` up to the
\* first statement of its body (deco = FALSE), or the call of a function
\* wrapped by switch_runtime up to the call of the wrapped function (deco = TRUE)
EnterRuntime(config_file, options, deco, opname) ==
    /\ Running
    /\ Len(stack) < MaxDepth
    /\ LET r == temp_runtime_init(runtime_context, config_file, options)
       IN  /\ Len(ctxs) + Len(r.new) <= MaxCtx
           /\ ctxs' = ctxs \o r.new
           /\ runtime_context' = r.rc
           /\ exc' = r.exc
           /\ stack' = IF r.exc = NoExc THEN Append(stack, RuntimeFrame(r, deco))
                       ELSE stack
           /\ last' = [op |-> opname, exc |-> r.exc, config_file |-> config_file]
    /\ UNCHANGED <<environ, loaded, fs, objs>>

TempRuntimeEnter(config_file, options) ==
    EnterRuntime(config_file, options, FALSE, "temp_runtime.__enter__")

\* leaving a `with temp_runtime(...)` block, at the end of its body or with
\* an exception propagating out of it
TempRuntimeExit ==
    /\ stack # <<>>
    /\ Top.kind = "temp_runtime"
    /\ ~Top.deco
    /\ LET x == temp_runtime_exit(Top)
       IN  /\ runtime_context' = x.rc
           /\ exc' = IF x.suppress THEN NoExc ELSE exc
           /\ last' = [op |-> "temp_runtime.__exit__", exc |-> exc',
                       raised |-> exc, entry_rc |-> Top.entry_rc]
    /\ stack' = Pop
    /\ UNCHANGED <<ctxs, environ, loaded, fs, objs>>

MaxObjs == 2       \* temp_runtime objects constructed and not entered yet

\* `t = temp_runtime(config_file, sysname, options)`: the object is constructed
\* and kept, the with-statement that enters it comes later or never
TempRuntimeConstruct(config_file, options) ==
    /\ Running
    /\ Len(objs) < MaxObjs
    /\ LET r == temp_runtime_init(runtime_context, config_file, options)
       IN  /\ Len(ctxs) + Len(r.new) <= MaxCtx
           /\ ctxs' = ctxs \o r.new
           /\ runtime_context' = r.rc
           /\ exc' = r.exc
           /\ objs' = IF r.exc = NoExc
                      THEN Append(objs, [runtime_save |-> r.runtime_save])
                      ELSE objs
           /\ last' = [op |-> "temp_runtime.__init__", exc |-> r.exc,
                       config_file |-> config_file]
    /\ UNCHANGED <<stack, environ, loaded, fs>>

\* `with t:` for an object t constructed earlier, up to the first statement
\* of the body: __enter__ returns _runtime_context and assigns nothing
TempRuntimeEnterObject(i) ==
    /\ Running
    /\ i \in DOMAIN objs
    /\ Len(stack) < MaxDepth
    /\ stack' = Append(stack,
                   [kind |-> "temp_runtime", runtime_save |-> objs[i].runtime_save,
                    environ_save |-> NoSnapshot, deco |-> FALSE,
                    entry_rc |-> runtime_context, entry_environ |-> NoSnapshot])
    /\ objs' = SubSeq(objs, 1, i - 1) \o SubSeq(objs, i + 1, Len(objs))
    /\ last' = [op |-> "temp_runtime.__enter__ of an object", exc |-> NoExc,
                ret |-> runtime_context]
    /\ UNCHANGED <<ctxs, runtime_context, exc, environ, loaded, fs>>

\* calling a function wrapped by switch_runtime(config_file, sysname, options)
SwitchRuntimeCall(config_file, options) ==
    EnterRuntime(config_file, options, TRUE, "switch_runtime.call")

FnResults == {"r1", "r2"}

switch_runtime_fn_drop(fn_ret) == "None"

\* _fn: `ret = fn(*args, **kwargs)` ... `return ret`
switch_runtime_fn(fn_ret) == fn_ret

\* the wrapped function returns fn_ret, or an exception propagates out of it
SwitchRuntimeReturn(fn_ret) ==
    /\ stack # <<>>
    /\ Top.kind = "temp_runtime"
    /\ Top.deco
    /\ LET x == temp_runtime_exit(Top)
       IN  /\ runtime_context' = x.rc
           /\ exc' = IF x.suppress THEN NoExc ELSE exc
           /\ last' = [op |-> "switch_runtime.return", exc |-> exc',
                       raised |-> exc,
                       ret |-> IF exc = NoExc THEN switch_runtime_fn(fn_ret) ELSE "unbound",
                       fn_ret |-> fn_ret, entry_rc |-> Top.entry_rc]
    /\ stack' = Pop
    /\ UNCHANGED <<ctxs, environ, loaded, fs, objs>>

\* a statement of the running body raises
Raise ==
    /\ Running
    /\ exc' = "BodyError"
    /\ last' = [op |-> "raise", exc |-> exc']
    /\ UNCHANGED <<ctxs, runtime_context, stack, environ, loaded, fs, objs>>

\* an except clause of the running code handles the exception
Catch ==
    /\ ~Running
    /\ exc' = NoExc
    /\ last' = [op |-> "except", exc |-> NoExc, raised |-> exc]
    /\ UNCHANGED <<ctxs, runtime_context, stack, environ, loaded, fs, objs>>

----------------------------------------------------------------------------
(* Collaborators of the environment activation: the variable expansion     *)
(* utility, the environment snapshot and the module system                 *)

Range(seq) == {seq[i] : i \in DOMAIN seq}

\* the text of a reference to variable v
RefOf(v) == IF v = "X" THEN "$X" ELSE "$Y"

IsRef(tok) == \E v \in EnvVars : tok = RefOf(v)

VarOfRef(tok) == CHOOSE v \in EnvVars : tok = RefOf(v)

RECURSIVE expandvars(_, _)
\* os_ext.expandvars(s) evaluated in the process environment env: every
\* reference to a variable that is set is replaced by its value (which is not
\* expanded again); a reference to an unset variable is left as it is
expandvars(s, env) ==
    IF s = <<>> THEN <<>>
    ELSE LET tok == Head(s)
             piece == IF IsRef(tok) /\ env[VarOfRef(tok)] # Absent
                      THEN env[VarOfRef(tok)]
                      ELSE <<tok>>
         IN  piece \o expandvars(Tail(s), env)

\* snapshot(): the image of the process environment variables
snapshot(env) == env

\* _EnvironmentSnapshot.restore(): the process environment afterwards
restore(env_snapshot, env) == env_snapshot

ModuleNames == {"m1", "m2", "m3"}

\* the modules each module conflicts with, in the order the module system
\* reports them
ConflictsOf(m) ==
    CASE m = "m1" -> <<"m3">>
      [] m = "m2" -> <<"m3">>
      [] m = "m3" -> <<"m1", "m2">>
      [] OTHER -> <<>>

\* modules_system.load_module(m, force=True) with the modules ld loaded: the
\* loaded modules that conflict with m are unloaded, then m is loaded; a
\* module the system does not know raises
load_module(m, ld) ==
    IF m \notin ModuleNames
    THEN [exc |-> "EnvironError", conflicted |-> <<>>, loaded |-> ld]
    ELSE LET conflicted == SelectSeq(ConflictsOf(m), LAMBDA c : c \in ld)
         IN  [exc |-> NoExc, conflicted |-> conflicted,
              loaded |-> (ld \ Range(conflicted)) \cup {m}]

emit_unload_commands(m) == << <<"module", "unload", m>> >>

emit_load_commands(m) == << <<"module", "load", m>> >>

is_module_loaded(m, ld) == m \in ld

\* Environment(name, modules, variables); variables is an ordered mapping
Environment(name, modules, variables) ==
    [name |-> name, modules |-> modules, variables |-> variables]

----------------------------------------------------------------------------
(* loadenv, emit_loadenv_commands, is_env_loaded *)

RECURSIVE UnloadCommands(_)
\* `for c in conflicted: commands += emit_unload_commands(c)`
UnloadCommands(conflicted) ==
    IF conflicted = <<>> THEN <<>>
    ELSE emit_unload_commands(Head(conflicted)) \o UnloadCommands(Tail(conflicted))

UnloadEffects(conflicted) ==
    [i \in DOMAIN conflicted |->
        [kind |-> "unload", name |-> conflicted[i], value |-> <<>>]]

loadenv_module_load_first(st, m) ==
    LET r == load_module(m, st.loaded)
    IN  IF r.exc # NoExc THEN [st EXCEPT !.exc = r.exc]
        ELSE [st EXCEPT
                !.loaded = r.loaded,
                !.commands = @ \o emit_load_commands(m) \o UnloadCommands(r.conflicted),
                !.effects = @ \o UnloadEffects(r.conflicted)
                              \o <<[kind |-> "load", name |-> m, value |-> <<>>]>>]

\* one iteration of `for m in env.modules`; st is the state of the call:
\* the process environment, the loaded modules, the commands collected and
\* the mutations applied so far, and the error raised if any
loadenv_module(st, m) ==
    LET r == load_module(m, st.loaded)
    IN  IF r.exc # NoExc THEN [st EXCEPT !.exc = r.exc]
        ELSE [st EXCEPT
                !.loaded = r.loaded,
                !.commands = @ \o UnloadCommands(r.conflicted) \o emit_load_commands(m),
                !.effects = @ \o UnloadEffects(r.conflicted)
                              \o <<[kind |-> "load", name |-> m, value |-> <<>>]>>]

\* a variable value that is not a string (a number given by mistake)
NonStr == <<"<int>">>

\* one iteration of `for k, v in env.variables.items()`; expanding and
\* assigning a value that is not a string raises
loadenv_variable(st, kv) ==
    IF kv[2] = NonStr THEN [st EXCEPT !.exc = "TypeError"]
    ELSE [st EXCEPT
            !.environ = [@ EXCEPT ![kv[1]] = expandvars(kv[2], st.environ)],
            !.commands = Append(@, <<"export", kv[1], "=">> \o kv[2]),
            !.effects = Append(@, [kind |-> "setenv", name |-> kv[1], value |-> kv[2]])]

RECURSIVE loadenv_modules(_, _)
loadenv_modules(st, modules) ==
    IF modules = <<>> \/ st.exc # NoExc THEN st
    ELSE loadenv_modules(loadenv_module(st, Head(modules)), Tail(modules))

RECURSIVE loadenv_variables(_, _)
loadenv_variables(st, variables) ==
    IF variables = <<>> \/ st.exc # NoExc THEN st
    ELSE loadenv_variables(loadenv_variable(st, Head(variables)), Tail(variables))

RECURSIVE loadenv_environs(_, _)
\* `for env in environs`
loadenv_environs(st, environs) ==
    IF environs = <<>> \/ st.exc # NoExc THEN st
    ELSE loadenv_environs(
            loadenv_variables(loadenv_modules(st, Head(environs).modules),
                              Head(environs).variables),
            Tail(environs))

loadenv_rollback(environs, rc, env, ld) ==
    IF runtime(rc).exc # NoExc
    THEN [exc |-> runtime(rc).exc, env_snapshot |-> NoSnapshot, commands |-> <<>>,
          environ |-> env, loaded |-> ld, effects |-> <<>>]
    ELSE LET st == loadenv_environs(
                       [exc |-> NoExc, environ |-> env, loaded |-> ld,
                        commands |-> <<>>, effects |-> <<>>], environs)
         IN  [exc |-> st.exc,
              env_snapshot |-> IF st.exc = NoExc THEN snapshot(env) ELSE NoSnapshot,
              commands |-> IF st.exc = NoExc THEN st.commands ELSE <<>>,
              environ |-> IF st.exc = NoExc THEN st.environ ELSE env,
              loaded |-> IF st.exc = NoExc THEN st.loaded ELSE ld,
              effects |-> st.effects]

\* loadenv(*environs) called with _runtime_context = rc, os.environ = env
\* and the modules ld loaded: the error raised if any, the tuple returned
\* (env_snapshot, commands), and the process state the call leaves
loadenv(environs, rc, env, ld) ==
    IF runtime(rc).exc # NoExc
    THEN [exc |-> runtime(rc).exc, env_snapshot |-> NoSnapshot, commands |-> <<>>,
          environ |-> env, loaded |-> ld, effects |-> <<>>]
    ELSE LET st == loadenv_environs(
                       [exc |-> NoExc, environ |-> env, loaded |-> ld,
                        commands |-> <<>>, effects |-> <<>>], environs)
         IN  [exc |-> st.exc,
              env_snapshot |-> IF st.exc = NoExc THEN snapshot(env) ELSE NoSnapshot,
              commands |-> IF st.exc = NoExc THEN st.commands ELSE <<>>,
              environ |-> st.environ, loaded |-> st.loaded, effects |-> st.effects]

\* emit_loadenv_commands(*environs)
emit_loadenv_commands(environs, rc, env, ld) ==
    LET r == loadenv(environs, rc, env, ld)
    IN  IF r.exc # NoExc THEN r
        ELSE [r EXCEPT !.environ = restore(r.env_snapshot, r.environ)]

\* is_env_loaded(environ)
is_env_loaded(e, rc, env, ld) ==
    IF runtime(rc).exc # NoExc
    THEN [exc |-> runtime(rc).exc, ret |-> FALSE]
    ELSE [exc |-> NoExc,
          ret |-> /\ \A i \in DOMAIN e.modules : is_module_loaded(e.modules[i], ld)
                  /\ \A i \in DOMAIN e.variables :
                        env[e.variables[i][1]] = expandvars(e.variables[i][2], env)]

\* The environments the callers activate
Environs ==
    { Environment("plain", <<"m1", "m2">>, << <<"Y", <<"c">>>> >>),
      Environment("exclusive", <<"m3">>, <<>>),
      Environment("selfconflict", <<"m1", "m3">>, <<>>),
      Environment("append", <<>>, << <<"X", <<"$X", "b">>>>, <<"Y", <<"c">>>> >>),
      Environment("missing", <<"m1", "nomod">>, << <<"Y", <<"c">>>> >>) }

\* an environment whose second variable has a value that is not a string
BadValueEnv ==
    Environment("badvalue", <<"m1">>, << <<"Y", <<"c">>>>, <<"X", NonStr>> >>)

EnvironLists ==
    {<<e>> : e \in Environs} \cup
    {<<e1, e2>> : e1 \in {e \in Environs : e.name = "plain"},
                  e2 \in {e \in Environs : e.name \in {"exclusive", "missing"}}}

MaxValLen == 2     \* tokens in the value of an environment variable

ValuesBounded(env) == \A v \in EnvVars : Len(env[v]) <= MaxValLen

\* a call of loadenv(*environs) whose caller keeps the tuple returned
Loadenv(environs) ==
    /\ Running
    /\ LET r == loadenv(environs, runtime_context, environ, loaded)
       IN  /\ ValuesBounded(r.environ)
           /\ environ' = r.environ
           /\ loaded' = r.loaded
           /\ exc' = r.exc
           /\ last' = [op |-> "loadenv", exc |-> r.exc, environs |-> environs,
                       env_snapshot |-> r.env_snapshot, commands |-> r.commands,
                       effects |-> r.effects]
    /\ UNCHANGED <<ctxs, runtime_context, stack, fs, objs>>

EmitLoadenvCommands(environs) ==
    /\ Running
    /\ LET r == emit_loadenv_commands(environs, runtime_context, environ, loaded)
       IN  /\ ValuesBounded(r.environ)
           /\ environ' = r.environ
           /\ loaded' = r.loaded
           /\ exc' = r.exc
           /\ last' = [op |-> "emit_loadenv_commands", exc |-> r.exc,
                       environs |-> environs, commands |-> r.commands]
    /\ UNCHANGED <<ctxs, runtime_context, stack, fs, objs>>

IsEnvLoaded(e) ==
    /\ Running
    /\ LET r == is_env_loaded(e, runtime_context, environ, loaded)
       IN  /\ exc' = r.exc
           /\ last' = [op |-> "is_env_loaded", exc |-> r.exc, environs |-> <<e>>,
                       ret |-> r.ret]
    /\ UNCHANGED <<ctxs, runtime_context, stack, environ, loaded, fs, objs>>

----------------------------------------------------------------------------
(* temp_environment *)

temp_environment_enter_save_after(modules, variables, rc, env, ld) ==
    LET new_env == Environment("_rfm_temp_env", modules, variables)
        r == loadenv(<<new_env>>, rc, env, ld)
    IN  [exc |-> r.exc, environ_save |-> r.environ,
         environ |-> r.environ, loaded |-> r.loaded]

\* temp_environment.__enter__: the error raised if any, the snapshot kept in
\* self._environ_save, and the process state the method leaves
temp_environment_enter(modules, variables, rc, env, ld) ==
    LET new_env == Environment("_rfm_temp_env", modules, variables)
        r == loadenv(<<new_env>>, rc, env, ld)
    IN  [exc |-> r.exc, environ_save |-> r.env_snapshot,
         environ |-> r.environ, loaded |-> r.loaded]

temp_environment_exit_keep(frame, env) == env

\* temp_environment.__exit__: the process environment afterwards
temp_environment_exit(frame, env) == restore(frame.environ_save, env)

\* the statement `with temp_environment(modules, variables):` up to the first
\* statement of its body
TempEnvironmentEnter(modules, variables) ==
    /\ Running
    /\ Len(stack) < MaxDepth
    /\ LET r == temp_environment_enter(modules, variables, runtime_context,
                                       environ, loaded)
       IN  /\ ValuesBounded(r.environ)
           /\ environ' = r.environ
           /\ loaded' = r.loaded
           /\ exc' = r.exc
           /\ stack' = IF r.exc # NoExc THEN stack
                       ELSE Append(stack,
                              [kind |-> "temp_environment", runtime_save |-> None,
                               environ_save |-> r.environ_save, deco |-> FALSE,
                               entry_rc |-> None, entry_environ |-> environ])
           /\ last' = [op |-> "temp_environment.__enter__", exc |-> r.exc,
                       modules |-> modules, variables |-> variables]
    /\ UNCHANGED <<ctxs, runtime_context, fs, objs>>

\* leaving a `with temp_environment(...)` block, at the end of its body or
\* with an exception propagating out of it
TempEnvironmentExit ==
    /\ stack # <<>>
    /\ Top.kind = "temp_environment"
    /\ environ' = temp_environment_exit(Top, environ)
    /\ stack' = Pop
    /\ last' = [op |-> "temp_environment.__exit__", exc |-> exc, raised |-> exc,
                entry_environ |-> Top.entry_environ, changed |-> environ' # environ]
    /\ UNCHANGED <<ctxs, runtime_context, exc, loaded, fs, objs>>

----------------------------------------------------------------------------
(* Paths and the file system (os.path, os.makedirs, os_ext.rmtree) *)

Sep == "/"

\* os.path.join(a, b) of posixpath
join2(a, b) ==
    IF b # <<>> /\ Head(b) = Sep THEN b
    ELSE IF a = <<>> \/ a[Len(a)] = Sep THEN a \o b
    ELSE a \o <<Sep>> \o b

RECURSIVE join(_, _)
\* os.path.join(a, *p)
join(a, p) == IF p = <<>> THEN a ELSE join(join2(a, Head(p)), Tail(p))

RECURSIVE Components(_, _, _)
\* the directory a path names: its components, without empty ones; an
\* absolute path has the root as first component
Components(path, cur, acc) ==
    IF path = <<>> THEN (IF cur = <<>> THEN acc ELSE Append(acc, cur))
    ELSE IF Head(path) = Sep
         THEN Components(Tail(path), <<>>, IF cur = <<>> THEN acc ELSE Append(acc, cur))
         ELSE Components(Tail(path), Append(cur, Head(path)), acc)

DirOf(path) ==
    Components(path, <<>>, IF path # <<>> /\ Head(path) = Sep THEN << <<Sep>> >> ELSE <<>>)

IsPrefix(a, b) == Len(a) <= Len(b) /\ SubSeq(b, 1, Len(a)) = a

\* os_ext.rmtree(path, ignore_errors=True): the directory and everything
\* below it are gone; a directory that does not exist is not an error
rmtree(f, path) ==
    LET top == DirOf(path)
    IN  [dirs |-> {d \in f.dirs : ~IsPrefix(top, d)},
         files |-> {d \in f.files : ~IsPrefix(top, d)}]

\* os.makedirs(path, exist_ok=True): the directory and its missing parents
makedirs(f, path) ==
    LET leaf == DirOf(path)
    IN  [f EXCEPT !.dirs = @ \cup {SubSeq(leaf, 1, n) : n \in 1 .. Len(leaf)}]

\* datetime.strftime(timefmt): the format "%F" gives the date, and the
\* contexts of one behaviour are constructed on the same day
strftime(now, timefmt) == IF timefmt = "" THEN <<>> ELSE <<"2020-06-01">>

----------------------------------------------------------------------------
(* RuntimeContext: the derived directories *)

\* RuntimeContext.prefix, .stagedir, .outputdir, .timestamp
prefix(c, env) == expandvars(c.site_config.prefix, env)
stagedir(c, env) == expandvars(c.site_config.stagedir, env)
outputdir(c, env) == expandvars(c.site_config.outputdir, env)
timestamp(c) == strftime(c.timestamp, c.site_config.timefmt)

\* RuntimeContext.stage_prefix
stage_prefix(c, env) ==
    IF stagedir(c, env) # <<>> THEN join(stagedir(c, env), <<timestamp(c)>>)
    ELSE join(prefix(c, env), <<<<"stage">>, timestamp(c)>>)

\* RuntimeContext.output_prefix
output_prefix(c, env) ==
    IF outputdir(c, env) # <<>> THEN join(outputdir(c, env), <<timestamp(c)>>)
    ELSE join(prefix(c, env), <<<<"output">>, timestamp(c)>>)

format_dirs_all(dirs, rc) ==
    IF dirs = <<>> THEN [exc |-> NoExc, ret |-> dirs]
    ELSE IF runtime(rc).exc # NoExc THEN [exc |-> runtime(rc).exc, ret |-> <<>>]
    ELSE IF ctxs[runtime(rc).ret].current_run = 0 THEN [exc |-> NoExc, ret |-> dirs]
    ELSE [exc |-> NoExc,
          ret |-> [i \in DOMAIN dirs |->
                     dirs[i] \o <<"_retry">> \o DecStr(ctxs[runtime(rc).ret].current_run)]]

format_dirs_nosuffix(dirs, rc) ==
    IF dirs = <<>> THEN [exc |-> NoExc, ret |-> dirs]
    ELSE IF runtime(rc).exc # NoExc THEN [exc |-> runtime(rc).exc, ret |-> <<>>]
    ELSE [exc |-> NoExc, ret |-> dirs]

\* RuntimeContext._format_dirs(*dirs) called with _runtime_context = rc
format_dirs(dirs, rc) ==
    IF dirs = <<>> THEN [exc |-> NoExc, ret |-> dirs]
    ELSE IF runtime(rc).exc # NoExc THEN [exc |-> runtime(rc).exc, ret |-> <<>>]
    ELSE IF ctxs[runtime(rc).ret].current_run = 0 THEN [exc |-> NoExc, ret |-> dirs]
    ELSE [exc |-> NoExc,
          ret |-> SubSeq(dirs, 1, Len(dirs) - 1) \o
                  <<dirs[Len(dirs)] \o <<"_retry">>
                        \o DecStr(ctxs[runtime(rc).ret].current_run)>>]

makedir_keep(f, dirs, wipeout) ==
    LET ret == join(Head(dirs), Tail(dirs))
    IN  [ret |-> ret, fs |-> makedirs(f, ret)]

\* RuntimeContext._makedir(*dirs, wipeout): the path returned and the file
\* system afterwards
makedir(f, dirs, wipeout) ==
    LET ret == join(Head(dirs), Tail(dirs))
    IN  [ret |-> ret,
         fs |-> makedirs(IF wipeout THEN rmtree(f, ret) ELSE f, ret)]

\* self.make_stagedir(*dirs, wipeout) (which = "stage") and
\* self.make_outputdir(*dirs, wipeout) (which = "output")
make_dir(which, self, dirs, wipeout, rc, env, f) ==
    LET pre == IF which = "stage" THEN stage_prefix(ctxs[self], env)
               ELSE output_prefix(ctxs[self], env)
        fmt == format_dirs(dirs, rc)
        made == makedir(f, <<pre>> \o fmt.ret, wipeout)
    IN  IF fmt.exc # NoExc THEN [exc |-> fmt.exc, ret |-> <<>>, fs |-> f]
        ELSE [exc |-> NoExc, ret |-> made.ret, fs |-> made.fs]

MaxDirs == 5       \* directories existing at the same time

MakeDirOps == {"make_stagedir", "make_outputdir"}

\* the value of wipeout when the caller of make_stagedir / make_outputdir
\* does not give one
wipeout_default == TRUE

\* a call of self.make_stagedir / self.make_outputdir; given tells whether the
\* caller passed wipeout
MakeDirCall(which, self, dirs, wipeout, given) ==
    /\ Running
    /\ self \in CtxIds
    /\ LET r == make_dir(which, self, dirs, wipeout, runtime_context, environ, fs)
       IN  /\ Cardinality(r.fs.dirs) <= MaxDirs
           /\ fs' = r.fs
           /\ exc' = r.exc
           /\ last' = [op |-> "make_" \o which \o "dir", exc |-> r.exc, self |-> self,
                       dirs |-> dirs, wipeout |-> wipeout, ret |-> r.ret,
                       wipeout_given |-> given,
                       emptied |-> fs.files \ r.fs.files # {}]
    /\ UNCHANGED <<ctxs, runtime_context, stack, environ, loaded, objs>>

MakeDir(which, self, dirs, wipeout) == MakeDirCall(which, self, dirs, wipeout, TRUE)

MakeStagedir(self, dirs, wipeout) == MakeDir("stage", self, dirs, wipeout)

MakeOutputdir(self, dirs, wipeout) == MakeDir("output", self, dirs, wipeout)

\* self.make_stagedir(*dirs) and self.make_outputdir(*dirs)
MakeStagedirDefault(self, dirs) ==
    MakeDirCall("stage", self, dirs, wipeout_default, FALSE)

MakeOutputdirDefault(self, dirs) ==
    MakeDirCall("output", self, dirs, wipeout_default, FALSE)

\* a job writes a file into a directory that exists
WriteFile(d) ==
    /\ Running
    /\ d \in fs.dirs
    /\ fs' = [fs EXCEPT !.files = @ \cup {Append(d, <<"job.out">>)}]
    /\ last' = [op |-> "write", exc |-> NoExc]
    /\ UNCHANGED <<ctxs, runtime_context, stack, exc, environ, loaded, objs>>

----------------------------------------------------------------------------
(* The context operations *)

CtxConfigFiles == {NoConfigFile, "generic.py", "broken.py", "missing.py"}

NextCtx ==
    \/ \E f \in {"generic.py", "broken.py"} : InitRuntime(load_config(f))
    \/ RuntimeQuery
    \/ \E c \in CtxIds : NextRun(c)
    \/ \E f \in CtxConfigFiles : TempRuntimeEnter(f, NoOptions)
    \/ TempRuntimeExit
    \/ \E f \in CtxConfigFiles : SwitchRuntimeCall(f, NoOptions)
    \/ \E v \in FnResults : SwitchRuntimeReturn(v)
    \/ Raise
    \/ Catch

Spec == Init /\ [][NextCtx]_vars

----------------------------------------------------------------------------
(* The environment operations, with a runtime context configured or not *)

NextEnv ==
    \/ InitRuntime(load_config("generic.py"))
    \/ \E es \in EnvironLists : Loadenv(es)
    \/ \E es \in EnvironLists : EmitLoadenvCommands(es)
    \/ \E e \in Environs : IsEnvLoaded(e)
    \/ \E e \in Environs \cup {BadValueEnv} :
          TempEnvironmentEnter(e.modules, e.variables)
    \/ TempEnvironmentExit
    \/ Raise
    \/ Catch

SpecEnv == Init /\ [][NextEnv]_vars

----------------------------------------------------------------------------
(* The directory operations *)

DirLists == {<<>>, << <<"s">> >>, << <<"s">>, <<"t">> >>}

NextPath ==
    \/ InitRuntime(load_config("scratch.py"))
    \/ \E c \in CtxIds : NextRun(c)
    \/ \E f \in {NoConfigFile, "scratch.py"} : TempRuntimeEnter(f, NoOptions)
    \/ TempRuntimeExit
    \/ \E c \in CtxIds, d \in DirLists : fs.dirs = {} /\ MakeStagedir(c, d, TRUE)
    \/ \E c \in CtxIds, d \in DirLists : fs.dirs = {} /\ MakeOutputdir(c, d, TRUE)
    \/ Catch

SpecPath == Init /\ [][NextPath]_vars

----------------------------------------------------------------------------
(* The directory operations of one context on one directory tree; a job   *)
(* writes into the directory it was just given                            *)

NextFs ==
    \/ InitRuntime(load_config("scratch.py"))
    \/ \E c \in CtxIds : NextRun(c)
    \/ \E c \in CtxIds, d \in DirLists, w \in BOOLEAN : MakeStagedir(c, d, w)
    \/ \E c \in CtxIds, w \in BOOLEAN : MakeOutputdir(c, << <<"s">> >>, w)
    \/ \E c \in CtxIds, d \in DirLists : MakeStagedirDefault(c, d)
    \/ \E c \in CtxIds : MakeOutputdirDefault(c, << <<"s">> >>)
    \/ \E d \in fs.dirs : last.op \in MakeDirOps /\ d = DirOf(last.ret) /\ WriteFile(d)

SpecFs == Init /\ [][NextFs]_vars

----------------------------------------------------------------------------
(* Every kind of operation together, on the smallest inputs *)

PlainEnv == CHOOSE e \in Environs : e.name = "plain"

NextAll ==
    \/ InitRuntime(load_config("generic.py"))
    \/ \E c \in CtxIds : NextRun(c)
    \/ TempRuntimeEnter("generic.py", NoOptions)
    \/ TempRuntimeExit
    \/ Loadenv(<<PlainEnv>>)
    \/ TempEnvironmentEnter(PlainEnv.modules, PlainEnv.variables)
    \/ TempEnvironmentExit
    \/ \E c \in CtxIds : fs.dirs = {} /\ MakeStagedir(c, << <<"s">> >>, TRUE)
    \/ Catch

SpecAll == Init /\ [][NextAll]_vars

----------------------------------------------------------------------------
(* temp_runtime objects constructed apart from the with-statement that      *)
(* enters them                                                              *)

NextObj ==
    \/ InitRuntime(load_config("generic.py"))
    \/ \E f \in {NoConfigFile, "generic.py"} : TempRuntimeConstruct(f, NoOptions)
    \/ \E i \in DOMAIN objs : TempRuntimeEnterObject(i)
    \/ TempRuntimeEnter("generic.py", NoOptions)
    \/ TempRuntimeExit
    \/ Raise
    \/ Catch

SpecObj == Init /\ [][NextObj]_vars

----------------------------------------------------------------------------
(* Properties *)

RuntimeExits == {"temp_runtime.__exit__", "switch_runtime.return"}

\* C1: when a temp_runtime scope is left, at the end of its body or by an
\* exception, the current context is the one that was current when the scope
\* was entered, whatever was done inside; every scope still open keeps the
\* context of its own entry, so leaving A after B gives back the context
\* that was current before A
C1_NestedUnwind ==
    /\ last.op \in RuntimeExits => runtime_context = last.entry_rc
    /\ \A k \in DOMAIN stack :
          stack[k].kind = "temp_runtime" => stack[k].runtime_save = stack[k].entry_rc

\* the inner of two nested scopes is left by an exception, after a context
\* was constructed inside; the outer scope replaced a context C0
C1_Witness ==
    /\ last.op = "temp_runtime.__exit__"
    /\ last.raised # NoExc
    /\ Len(stack) = 1
    /\ stack[1].entry_rc # None
    /\ runtime_context # stack[1].entry_rc
    /\ Len(ctxs) = MaxCtx

\* C2: after loadenv(E) has returned without error, is_env_loaded(E) is true
C2_LoadedAfterLoadenv ==
    (last.op = "loadenv" /\ last.exc = NoExc /\ Len(last.environs) = 1)
        => is_env_loaded(last.environs[1], runtime_context, environ, loaded).ret

\* C3: emit_loadenv_commands leaves the process environment as it was before
\* the call, for any environments given
C3_EmitLeavesEnviron ==
    [][last'.op = "emit_loadenv_commands" => environ' = environ]_vars

\* the path C4 states for make_stagedir / make_outputdir of context c
C4_Base(which, c) ==
    IF which = "make_stagedir"
    THEN (IF stagedir(c, environ) # <<>> THEN stagedir(c, environ)
          ELSE join2(prefix(c, environ), <<"stage">>))
    ELSE (IF outputdir(c, environ) # <<>> THEN outputdir(c, environ)
          ELSE join2(prefix(c, environ), <<"output">>))

C4_Segments(c, dirs) ==
    IF dirs = <<>> \/ c.current_run = 0 THEN dirs
    ELSE [dirs EXCEPT ![Len(dirs)] = @ \o <<"_retry">> \o DecStr(c.current_run)]

\* C4: on the current context, make_stagedir / make_outputdir return
\* <prefix>/<timestamp>/s1/.../sn with, when current_run = r > 0 and n >= 1,
\* only the last segment rewritten to sn_retry<r>; <prefix> is the configured
\* directory when set, else <install prefix>/stage or /output
C4_PathDerivation ==
    (/\ last.op \in {"make_stagedir", "make_outputdir"}
     /\ last.self = runtime_context)
        => /\ last.exc = NoExc
           /\ last.ret = join(C4_Base(last.op, ctxs[last.self]),
                              <<timestamp(ctxs[last.self])>>
                                \o C4_Segments(ctxs[last.self], last.dirs))

\* two segments derived on the current context in its second retry
C4_Witness ==
    /\ last.op = "make_stagedir"
    /\ last.self = runtime_context
    /\ ctxs[last.self].current_run = 2
    /\ Len(last.dirs) = 2

\* C5: current_run is 0 at construction, grows by exactly one with each
\* next_run() on that instance, and no other operation changes it
C5_CurrentRunCounts ==
    [][/\ Len(ctxs') >= Len(ctxs)
       /\ \A c \in 1 .. Len(ctxs') :
            ctxs'[c].current_run =
                IF c > Len(ctxs) THEN 0
                ELSE IF last'.op = "next_run" /\ last'.self = c
                     THEN ctxs[c].current_run + 1
                     ELSE ctxs[c].current_run]_vars

\* a scope is left and gives back a context that counted a retry, while
\* another instance counted one of its own
C5_Witness ==
    /\ last.op = "temp_runtime.__exit__"
    /\ runtime_context # None
    /\ ctxs[runtime_context].current_run = 1
    /\ \E c \in CtxIds : c # runtime_context /\ ctxs[c].current_run = 1

\* C6: runtime() raises the fatal error exactly when no context is installed,
\* returns the installed context otherwise, and changes no state
C6_RuntimeAccessor ==
    [][last'.op = "runtime" =>
         /\ UNCHANGED <<ctxs, runtime_context, stack, environ, loaded, fs, objs>>
         /\ IF runtime_context = None
            THEN exc' = "ReframeFatalError: no runtime context is configured"
            ELSE exc' = NoExc /\ last'.ret = runtime_context]_vars

\* runtime() raises inside a temp_runtime scope created with no configuration
\* while a context exists outside
C6_Witness ==
    /\ last.op = "runtime"
    /\ last.exc # NoExc
    /\ stack # <<>>
    /\ stack[1].entry_rc # None

\* C7: init_runtime with a context installed is a no-op, whatever the
\* configuration given; a context is constructed only when none is installed
C7_InitRuntimeIdempotent ==
    [][last'.op = "init_runtime" =>
         /\ runtime_context # None =>
               /\ runtime_context' = runtime_context
               /\ ctxs' = ctxs
               /\ exc' = NoExc
         /\ ctxs' # ctxs => runtime_context = None /\ runtime_context' = Len(ctxs')]_vars

\* init_runtime is called with a configuration that cannot be built while
\* a context of another configuration, in its first retry, is installed
C7_Witness ==
    /\ last.op = "init_runtime"
    /\ last.arg = "broken"
    /\ last.exc = NoExc
    /\ runtime_context # None
    /\ ctxs[runtime_context].current_run > 0

\* C8: when a temp_environment scope is left, at the end of its body or by an
\* exception, the process environment is the one of the moment before the
\* scope was entered
C8_EnvironmentRestored ==
    last.op = "temp_environment.__exit__" => environ = last.entry_environ

\* the inner of two nested scopes is left by an exception and the exit
\* changes the environment back to the one the outer scope had set up
C8_Witness ==
    /\ last.op = "temp_environment.__exit__"
    /\ last.raised # NoExc
    /\ last.changed
    /\ Len(stack) = 1
    /\ stack[1].entry_environ # environ

\* C9: a function wrapped by switch_runtime starts with the new context (or
\* none) current; the wrapper returns the function's value or lets its
\* exception through, and the caller finds the context of before the call
C9_SwitchRuntime ==
    /\ (last.op = "switch_runtime.call" /\ last.exc = NoExc) =>
          /\ Top.deco
          /\ runtime_context =
                IF last.config_file = NoConfigFile THEN None ELSE Len(ctxs)
          /\ runtime_context # None => ctxs[runtime_context].current_run = 0
    /\ last.op = "switch_runtime.return" =>
          /\ runtime_context = last.entry_rc
          /\ exc = last.raised
          /\ last.raised = NoExc => last.ret = last.fn_ret

\* the wrapped function raised and the wrapper's caller sees the exception
\* and its own context again
C9_Witness ==
    /\ last.op = "switch_runtime.return"
    /\ last.raised # NoExc
    /\ exc # NoExc
    /\ runtime_context # None

\* the shell command that reproduces one mutation
C10_CommandOf(e) ==
    CASE e.kind = "unload" -> <<"module", "unload", e.name>>
      [] e.kind = "load" -> <<"module", "load", e.name>>
      [] OTHER -> <<"export", e.name, "=">> \o e.value

RECURSIVE C10_Items(_)
\* the modules, then the variables, of each environment in argument order
C10_Items(environs) ==
    IF environs = <<>> THEN <<>>
    ELSE [i \in DOMAIN Head(environs).modules |->
            [kind |-> "load", name |-> Head(environs).modules[i], value |-> <<>>]]
         \o [i \in DOMAIN Head(environs).variables |->
            [kind |-> "setenv", name |-> Head(environs).variables[i][1],
             value |-> Head(environs).variables[i][2]]]
         \o C10_Items(Tail(environs))

RECURSIVE C10_Replay(_, _)
\* the process state st after the mutations are applied to it in order
C10_Replay(st, effects) ==
    IF effects = <<>> THEN st
    ELSE LET e == Head(effects)
         IN  C10_Replay(
                CASE e.kind = "unload" -> [st EXCEPT !.loaded = @ \ {e.name}]
                  [] e.kind = "load" -> [st EXCEPT !.loaded = @ \cup {e.name}]
                  [] OTHER -> [st EXCEPT !.environ =
                                 [@ EXCEPT ![e.name] = expandvars(e.value, st.environ)]],
                Tail(effects))

\* position of module c in the conflicts the module system reports for m
C10_Rank(m, c) == CHOOSE i \in DOMAIN ConflictsOf(m) : ConflictsOf(m)[i] = c

\* C10: the commands loadenv returns are, one for one and in the same order,
\* the mutations it applied: environments in argument order, for each module
\* the unloads of the modules it conflicted with (in the order reported) and
\* then its load, then one export per variable in mapping order; the snapshot
\* returned is the process environment at the time of the call
C10_CommandOrder ==
    [][(last'.op = "loadenv" /\ last'.exc = NoExc) =>
         LET eff == last'.effects
             IsUnload(e) == e.kind = "unload"
             LoadAfter(i) == CHOOSE j \in i + 1 .. Len(eff) :
                                /\ eff[j].kind = "load"
                                /\ \A k \in i .. j - 1 : IsUnload(eff[k])
         IN  /\ last'.env_snapshot = environ
             /\ last'.commands = [i \in DOMAIN eff |-> C10_CommandOf(eff[i])]
             /\ SelectSeq(eff, LAMBDA e : ~IsUnload(e)) = C10_Items(last'.environs)
             /\ C10_Replay([environ |-> environ, loaded |-> loaded], eff)
                   = [environ |-> environ', loaded |-> loaded']
             /\ \A i \in DOMAIN eff : IsUnload(eff[i]) =>
                   /\ \E j \in i + 1 .. Len(eff) :
                         /\ eff[j].kind = "load"
                         /\ \A k \in i .. j - 1 : IsUnload(eff[k])
                   /\ eff[i].name \in Range(ConflictsOf(eff[LoadAfter(i)].name))
                   /\ (i > 1 /\ IsUnload(eff[i - 1])) =>
                         C10_Rank(eff[LoadAfter(i)].name, eff[i - 1].name)
                            < C10_Rank(eff[LoadAfter(i)].name, eff[i].name)]_vars

\* two environments were activated; the second one's module conflicted with
\* both modules of the first, and a variable was exported in between
C10_Witness ==
    /\ last.op = "loadenv"
    /\ last.exc = NoExc
    /\ Len(last.environs) = 2
    /\ \E i \in 2 .. Len(last.effects) - 2 :
          /\ last.effects[i - 1].kind = "setenv"
          /\ last.effects[i].kind = "unload"
          /\ last.effects[i + 1].kind = "unload"
          /\ last.effects[i + 2].kind = "load"

RECURSIVE C11_Known(_)
\* the modules of a list that precede the first one the module system does
\* not know
C11_Known(modules) ==
    IF modules = <<>> \/ Head(modules) \notin ModuleNames THEN <<>>
    ELSE <<Head(modules)>> \o C11_Known(Tail(modules))

RECURSIVE C11_Applied(_)
\* the part of the environments that precedes the failing step: the
\* environments before the failing one, and of the failing one the modules
\* before the failing module
C11_Applied(environs) ==
    IF environs = <<>> THEN <<>>
    ELSE LET e == Head(environs)
         IN  IF Len(C11_Known(e.modules)) < Len(e.modules)
             THEN <<Environment(e.name, C11_Known(e.modules), <<>>)>>
             ELSE <<e>> \o C11_Applied(Tail(environs))

\* C11: when loading a module fails inside loadenv, the error reaches the
\* caller and the process is left exactly as a successful activation of
\* everything before the failing step leaves it: modules loaded and unloaded,
\* variables set by earlier environments; nothing is rolled back
C11_NoRollback ==
    [][(last'.op = "loadenv" /\ last'.exc = "EnvironError") =>
         LET r == loadenv(C11_Applied(last'.environs), runtime_context, environ, loaded)
         IN  /\ exc' = "EnvironError"
             /\ r.exc = NoExc
             /\ environ' = r.environ
             /\ loaded' = r.loaded]_vars

\* the second of two environments fails on its second module, after the
\* first environment loaded modules and set a variable that was unset
C11_Witness ==
    /\ last.op = "loadenv"
    /\ last.exc = "EnvironError"
    /\ Len(last.environs) = 2
    /\ Len(last.effects) = 4
    /\ last.effects[3].kind = "setenv"
    /\ environ[last.effects[3].name] = <<"c">>
    /\ {"m1", "m2"} \subseteq loaded

\* the directory a path names and the directories above it
C12_Chain(path) ==
    LET leaf == DirOf(path)
    IN  {SubSeq(leaf, 1, n) : n \in 1 .. Len(leaf)}

\* C12: make_stagedir / make_outputdir never fail because the directory
\* exists or does not exist; they return the derived path; afterwards the
\* directory and its parents exist; with wipeout the directory is empty and
\* everything outside it is as before; without wipeout everything that
\* existed is still there; wipeout is true when the caller does not give it
C12_DirectoryEffect ==
    [][last'.op \in MakeDirOps =>
         /\ exc' = NoExc
         /\ last'.ret = join(C4_Base(last'.op, ctxs[last'.self]),
                             <<timestamp(ctxs[last'.self])>>
                               \o C4_Segments(ctxs[last'.self], last'.dirs))
         /\ ~last'.wipeout_given => last'.wipeout
         /\ \A D \in {DirOf(last'.ret)}, chain \in {C12_Chain(last'.ret)} :
               /\ chain \subseteq fs'.dirs
               /\ IF last'.wipeout
                  THEN /\ {x \in fs'.dirs : IsPrefix(D, x)} = {D}
                       /\ {x \in fs'.files : IsPrefix(D, x)} = {}
                       /\ {x \in fs'.dirs : ~IsPrefix(D, x)}
                             = {x \in fs.dirs : ~IsPrefix(D, x)} \cup (chain \ {D})
                       /\ {x \in fs'.files : ~IsPrefix(D, x)}
                             = {x \in fs.files : ~IsPrefix(D, x)}
                  ELSE /\ fs'.dirs = fs.dirs \cup chain
                       /\ fs'.files = fs.files]_vars

\* make_stagedir called without wipeout on a directory that held files: the
\* files are gone, while a file written in another directory is still there
C12_Witness ==
    /\ last.op = "make_stagedir"
    /\ ~last.wipeout_given
    /\ last.emptied
    /\ fs.files # {}

\* the path C4 states for the operation op of context c with the segments
\* dirs, had c counted r retries
C13_PathAt(op, c, dirs, r) ==
    LET cr == [c EXCEPT !.current_run = r]
    IN  join(C4_Base(op, cr), <<timestamp(cr)>> \o C4_Segments(cr, dirs))

\* a call on the current context, in a retry, with at least minsegs
\* segments: the path returned differs from the path of the same segments at
\* every other run number, and the directory of that other run, if it
\* exists, is still there with its files after the call
C13_Step(minsegs) ==
    (/\ last'.op \in MakeDirOps
     /\ last'.exc = NoExc
     /\ last'.self = runtime_context
     /\ Len(last'.dirs) >= minsegs
     /\ ctxs[last'.self].current_run > 0)
        => \A r \in 0 .. MaxRun :
              r # ctxs[last'.self].current_run =>
                 \A other \in {C13_PathAt(last'.op, ctxs[last'.self], last'.dirs, r)} :
                    /\ last'.ret # other
                    /\ \A D \in {DirOf(other)} :
                          /\ D \in fs.dirs => D \in fs'.dirs
                          /\ \A x \in fs.files : IsPrefix(D, x) => x \in fs'.files

\* C13 as stated: for any sequence of segments, the empty one included, a
\* retry derives a path of its own and its wipeout leaves the directories of
\* the other runs alone
C13_NoCollisionAnySegments == [][C13_Step(0)]_vars

\* C13, amended: the same, for calls that give at least one segment
C13_NoCollision == [][C13_Step(1)]_vars

\* in the first retry a directory was made with wipeout for segments whose
\* directory of the original run exists and holds a file
C13_Witness ==
    /\ last.op = "make_stagedir"
    /\ last.wipeout
    /\ Len(last.dirs) >= 1
    /\ ctxs[last.self].current_run = 1
    /\ \E x \in fs.files :
          IsPrefix(DirOf(C13_PathAt(last.op, ctxs[last.self], last.dirs, 0)), x)

\* C14: when the activation made on entering a temp_environment scope
\* fails, the process environment variables, once the error has left the
\* with-statement, are those of before the statement
C14_EntryFailureRestores ==
    [][(last'.op = "temp_environment.__enter__" /\ last'.exc # NoExc)
          => /\ stack' = stack
             /\ environ' = environ]_vars

\* C15: when loadenv fails after it has applied some mutation, what its
\* caller holds includes the snapshot taken at the start of the call, and
\* restoring it gives the process environment of before the call
C15_SnapshotOnFailure ==
    [][(last'.op = "loadenv" /\ last'.exc # NoExc /\ last'.effects # <<>>)
          => /\ last'.env_snapshot = snapshot(environ)
             /\ restore(last'.env_snapshot, environ') = environ]_vars

\* C16: for every context c, installed as the current one or not,
\* c.make_stagedir / c.make_outputdir succeed and return the path built from
\* c's configuration, c's timestamp and c's own current_run
C16_OwnRetrySuffix ==
    last.op \in MakeDirOps
        => /\ last.exc = NoExc
           /\ last.ret = C13_PathAt(last.op, ctxs[last.self], last.dirs,
                                    ctxs[last.self].current_run)

\* C17: constructing a temp_runtime object leaves the current context as it
\* is; the context is saved and replaced when the scope is entered, so that
\* leaving the scope gives back the context that was current at its entry
C17_SwitchOnEntry ==
    [][/\ last'.op = "temp_runtime.__init__" => runtime_context' = runtime_context
       /\ last'.op = "temp_runtime.__exit__" => runtime_context' = last'.entry_rc]_vars

RuntimeEntries == {"temp_runtime.__enter__", "switch_runtime.call"}

\* C18: when the configuration cannot be loaded or the RuntimeContext cannot
\* be constructed while a temp_runtime is set up, the error reaches the
\* caller, the current context is the one of before, no context was added
\* and no scope is open that would need an exit
C18_FailedSwitchLeavesContext ==
    [][(last'.op \in RuntimeEntries /\ last'.exc # NoExc)
          => /\ exc' = "ConfigError"
             /\ runtime_context' = runtime_context
             /\ ctxs' = ctxs
             /\ stack' = stack]_vars

\* inside a scope that installed a context of its own, a switch to a
\* configuration file that cannot be loaded failed
C18_Witness ==
    /\ last.op = "temp_runtime.__enter__"
    /\ last.exc = "ConfigError"
    /\ last.config_file = "missing.py"
    /\ Len(stack) = 1
    /\ runtime_context # None
    /\ runtime_context # stack[1].entry_rc

====
